---- MODULE Spec2Model ----
(***************************************************************************)
(* js-partial-classes: supplement(mainClass, partialClass) copies the      *)
(* writable own members of a partial class onto a main class, and          *)
(* supplementAll(mainClass, directory) issues one supplement call per      *)
(* accepted file of a directory.  The supplementation metadata (in-flight  *)
(* counter and completion promise) lives in symbol-keyed properties of the *)
(* main class.                                                             *)
(*                                                                         *)
(* A class is modelled by its two member tables: the static table (the own *)
(* string-keyed properties of the constructor) and the instance-method     *)
(* table (the own properties of its prototype object).  A table is the     *)
(* sequence of its entries in own-property order; an entry is a property   *)
(* descriptor together with its key.                                       *)
(***************************************************************************)
EXTENDS Integers, Sequences, FiniteSets, TLC

\* Bound of the model: the number of supplement calls issued, directly or by
\* supplementAll; a supplementAll call that issues none counts for one.
MaxCalls == 3

None == "None"

(***************************************************************************)
(* Property descriptors.  `writable` of an accessor descriptor is          *)
(* undefined in JavaScript; the only use the code makes of it is           *)
(* `!value.writable`, so it is modelled as FALSE.  `value` of an accessor  *)
(* descriptor is undefined.  `setter` tells whether an accessor has a set  *)
(* function.  The configurable flag, which the code never reads and never  *)
(* depends on, is left out.                                                *)
(***************************************************************************)
Undefined == "undefined"

\* A method as the class syntax defines it: writable, not enumerable.
Method(k, v) ==
  [key |-> k, kind |-> "data", value |-> v, writable |-> TRUE,
   enumerable |-> FALSE, setter |-> FALSE]

\* A data property that is not writable (name, length, prototype of a class,
\* or Object.defineProperty(cls, k, {value: v, writable: false})).
ReadOnly(k, v) ==
  [key |-> k, kind |-> "data", value |-> v, writable |-> FALSE,
   enumerable |-> FALSE, setter |-> FALSE]

\* An accessor property (get k() / set k(v)).
Accessor(k, hasSetter) ==
  [key |-> k, kind |-> "accessor", value |-> Undefined, writable |-> FALSE,
   enumerable |-> FALSE, setter |-> hasSetter]

\* The property that an assignment creates on an object that has none.
Assigned(k, v) ==
  [key |-> k, kind |-> "data", value |-> v, writable |-> TRUE,
   enumerable |-> TRUE, setter |-> FALSE]

\* typeof v === "function": of the values that the data members of the
\* model hold, the methods are functions; the string of the static field
\* version, the name, length and prototype of a class are not (the value of
\* "constructor" is the class, written like its name).
Version == "1.0.0"
Callable(v) ==
  v \notin {Undefined, Version, "0"}
    \cup {"Main", "Sub", "PartA", "PartB", "PartC", "PartD"}
    \cup {"Main.prototype", "Sub.prototype", "PartA.prototype",
          "PartB.prototype", "PartC.prototype", "PartD.prototype"}

\* The own properties every class constructor has.
ClassOwn(name) ==
  << ReadOnly("length", "0"), ReadOnly("name", name),
     ReadOnly("prototype", name \o ".prototype") >>

(***************************************************************************)
(* The classes of the model.  Main and Sub (class Sub extends Main) are    *)
(* main classes; PartA, PartB, PartC, PartD are partial classes.           *)
(***************************************************************************)
Targets == {"Main", "Sub"}
Sources == {"PartA", "PartB", "PartC", "PartD"}
Classes == Targets \cup Sources

\* class Sub extends Main: Sub inherits Main's static members, Sub.prototype
\* inherits Main.prototype's members.
Parent(c) == IF c = "Sub" THEN "Main" ELSE None

InitStatic(c) ==
  CASE c = "Main"  -> ClassOwn("Main") \o << Method("h", "Main.h") >>
    [] c = "Sub"   -> ClassOwn("Sub")
    [] c = "PartA" -> ClassOwn("PartA") \o
                      << Method("h", "PartA.h"),
                         Accessor("acc", FALSE),
                         ReadOnly("ro", "PartA.ro") >>
    \* class PartB { static h() {..}  static version = "1.0.0"  m() {..} }
    [] c = "PartB" -> ClassOwn("PartB") \o
                      << Method("h", "PartB.h"), Assigned("version", Version) >>
    \* class PartC { static name() {..}  static k() {..}  c() {..} }:
    \* the static method replaces the class's own name property.
    [] c = "PartC" -> << ReadOnly("length", "0"),
                         Method("name", "PartC.name"),
                         ReadOnly("prototype", "PartC.prototype"),
                         Method("k", "PartC.k") >>
    \* class PartD { static default() {..}  static d() {..}  p() {..} }
    [] c = "PartD" -> ClassOwn("PartD") \o
                      << Method("default", "PartD.default"),
                         Method("d", "PartD.d") >>

InitProto(c) ==
  CASE c = "Main"  -> << Method("constructor", "Main"),
                         Method("mainMethod", "Main.mainMethod"),
                         Method("m", "Main.m") >>
    [] c = "Sub"   -> << Method("constructor", "Sub") >>
    [] c = "PartA" -> << Method("constructor", "PartA"),
                         Method("m", "PartA.m"),
                         Accessor("g", FALSE),
                         Method("a", "PartA.a"),
                         Method("h", "PartA.prototype.h") >>
    [] c = "PartB" -> << Method("constructor", "PartB"),
                         Method("m", "PartB.m") >>
    [] c = "PartC" -> << Method("constructor", "PartC"),
                         Method("c", "PartC.c") >>
    [] c = "PartD" -> << Method("constructor", "PartD"),
                         Method("p", "PartD.p") >>

\* A main class that declares m as a setter instead of a method:
\* class Main { constructor() {..}  mainMethod() {..}  set m(v) {..} }
MainProtoWithSetter ==
  << Method("constructor", "Main"),
     Method("mainMethod", "Main.mainMethod"),
     Accessor("m", TRUE) >>

\* The instance-method tables that the main class Main may start with.
MainProtos == { InitProto("Main"), MainProtoWithSetter }

(***************************************************************************)
(* The external collaborators: the module loaders (import(), tsImport.load)*)
(* and the directory lister (fs.readdir).  A path is the sequence of the   *)
(* dot-separated segments of its file name ("validation.js" is             *)
(* <<"validation", "js">>); the directory part plays no role in the code   *)
(* but for being handed to the loader.                                     *)
(***************************************************************************)
Rejected == [ok |-> FALSE, tag |-> "error", cls |-> None]
\* The loaded value is a class.
ClassValue(c) == [ok |-> TRUE, tag |-> "class", cls |-> c]
\* The loaded value is a module namespace object; cls is its default export
\* (None: the module has no default export).
ModuleValue(c) == [ok |-> TRUE, tag |-> "module", cls |-> c]

\* The modules that exist, by path.
Modules(p) ==
  CASE p = <<"partA", "js">>  -> ModuleValue("PartA")
    [] p = <<"partB", "ts">>  -> ModuleValue("PartB")
    [] p = <<"partC", "cjs">> -> ModuleValue("PartC")
    [] p = <<"partD", "mjs">> -> ModuleValue("PartD")
    [] p = <<"named", "mjs">> -> ModuleValue(None)
    [] OTHER                  -> Rejected

\* partialClass.endsWith(".ts")
EndsWithTs(p) == Len(p) >= 2 /\ p[Len(p)] = "ts"

\* import(path): Node loads no TypeScript source.
Import(p) == IF EndsWithTs(p) THEN Rejected ELSE Modules(p)

\* tsImport.load(path)
TsImportLoad(p) == Modules(p)

\* path.extname(file): from the last dot of the name to its end; empty when
\* the name has no dot or its only dot is its first character.
ExtName(p) ==
  IF Len(p) < 2 \/ (Len(p) = 2 /\ p[1] = "") THEN "" ELSE "." \o p[Len(p)]

validExtensions == {".js", ".ts", ".mjs", ".cjs"}

\* fs.readdir(directory)
Dirs == {"partials", "vendor", "empty", "nodir"}
Readdir(d) ==
  CASE d = "partials" -> [ok |-> TRUE,
                          files |-> << <<"partA", "js">>, <<"notes", "md">>,
                                       <<"partB", "ts">> >>]
    [] d = "vendor"   -> [ok |-> TRUE,
                          files |-> << <<"named", "mjs">>, <<"broken", "js">>,
                                       <<"partC", "cjs">> >>]
    [] d = "empty"    -> [ok |-> TRUE, files |-> << >>]
    [] d = "docs"     -> [ok |-> TRUE,
                          files |-> << <<"notes", "md">>, <<"README">>,
                                       <<"", "js">> >>]
    [] OTHER          -> [ok |-> FALSE, files |-> << >>]

(***************************************************************************)
(* The second argument of supplement: a class, a string path, or a promise *)
(* (import(path), or a Promise<Function>).                                 *)
(***************************************************************************)
ClassRef(c)   == [kind |-> "class", cls |-> c, path |-> << >>]
PathRef(p)    == [kind |-> "path", cls |-> None, path |-> p]
ImportRef(p)  == [kind |-> "promise", cls |-> None, path |-> p]
PromiseRef(c) == [kind |-> "promise", cls |-> c, path |-> << >>]

\* The references that the direct supplement calls of the model use.
DirectRefs ==
  { ImportRef(<<"partA", "js">>), ClassRef("PartB"), ClassRef("PartC"),
    PathRef(<<"named", "mjs">>), PathRef(<<"broken", "js">>) }

\* What `await partialClass` yields (supplement, after the string case).
Awaited(ref) ==
  CASE ref.kind = "class" -> ClassValue(ref.cls)
    [] ref.kind = "path"  -> IF EndsWithTs(ref.path) THEN TsImportLoad(ref.path)
                                                     ELSE Import(ref.path)
    [] OTHER              -> IF ref.path = << >> THEN ClassValue(ref.cls)
                                                 ELSE Import(ref.path)

(***************************************************************************)
(* Property lookup and assignment on a table, along the inheritance chain  *)
(* of its class.  tab maps each class to one of its two tables.            *)
(***************************************************************************)
HasOwn(table, k) == \E i \in 1..Len(table) : table[i].key = k
OwnIndex(table, k) == CHOOSE i \in 1..Len(table) : table[i].key = k
Own(table, k) == table[OwnIndex(table, k)]

\* The class of the chain of c, c included, whose table defines k (None when
\* there is none).
RECURSIVE Definer(_, _, _)
Definer(tab, c, k) ==
  IF c = None THEN None
  ELSE IF HasOwn(tab[c], k) THEN c
  ELSE Definer(tab, Parent(c), k)

\* obj[k] = v in strict mode code (an ES module): an own or inherited
\* accessor takes the assignment (its setter is called with v, or a TypeError
\* is thrown when it has none); an own or inherited data property that is
\* not writable makes it throw a TypeError; an own writable data property
\* gets the value; otherwise a new own property is created at the end of
\* the table.  A setter is taken to leave the tables alone.
\* An assignment that adds an entry to the table each time, even when the
\* class has an own entry of that name already.
SetPropertyAppending(tab, c, k, v) ==
  LET d == Definer(tab, c, k) IN
  IF d = None
    THEN [tab |-> [tab EXCEPT ![c] = Append(@, Assigned(k, v))], threw |-> FALSE]
  ELSE LET e == Own(tab[d], k) IN
    IF e.kind = "accessor" THEN [tab |-> tab, threw |-> ~e.setter]
    ELSE IF ~e.writable THEN [tab |-> tab, threw |-> TRUE]
    ELSE [tab |-> [tab EXCEPT ![c] = Append(@, Assigned(k, v))],
          threw |-> FALSE]

SetProperty(tab, c, k, v) ==
  LET d == Definer(tab, c, k) IN
  IF d = None
    THEN [tab |-> [tab EXCEPT ![c] = Append(@, Assigned(k, v))], threw |-> FALSE]
  ELSE LET e == Own(tab[d], k) IN
    IF e.kind = "accessor" THEN [tab |-> tab, threw |-> ~e.setter]
    ELSE IF ~e.writable THEN [tab |-> tab, threw |-> TRUE]
    ELSE IF d = c
      THEN [tab |-> [tab EXCEPT ![c][OwnIndex(tab[c], k)].value = v],
            threw |-> FALSE]
      ELSE [tab |-> [tab EXCEPT ![c] = Append(@, Assigned(k, v))],
            threw |-> FALSE]

\* obj[k]: the value that a lookup of k on class c (static table) or on an
\* instance of c (instance-method table) finds.
GetProperty(tab, c, k) ==
  LET d == Definer(tab, c, k) IN
  IF d = None THEN Undefined ELSE Own(tab[d], k).value

\* The iteration over the enumerable own members only, as Object.keys
\* would list them.
iterateDescriptorsEnumerable(table) ==
  SelectSeq(table, LAMBDA e : e.enumerable /\ e.key # "constructor")

\* The iteration without the exclusion of "constructor".
iterateDescriptorsAll(table) == table

(***************************************************************************)
(* iterateDescriptors(cls, cb): the [key, descriptor] pairs handed to cb,  *)
(* in order.  Object.getOwnPropertyDescriptors lists every own property,   *)
(* enumerable or not; Object.entries keeps the string keys.                *)
(***************************************************************************)
iterateDescriptors(table) ==
  SelectSeq(table, LAMBDA e : e.key # "constructor")

\* The callback without its writable test.
CopyEntryUnchecked(tab, c, e) == SetProperty(tab, c, e.key, e.value)

\* The callback of supplement on one pair: skip when not writable, assign
\* otherwise.
CopyEntry(tab, c, e) ==
  IF ~e.writable THEN [tab |-> tab, threw |-> FALSE]
  ELSE SetProperty(tab, c, e.key, e.value)

\* A copy that replaces the target's table by the source's writable pairs
\* instead of assigning them one by one.
CopyEntriesReplacing(tab, c, entries) ==
  [tab |-> [tab EXCEPT ![c] = SelectSeq(entries, LAMBDA e : e.writable)],
   threw |-> FALSE]

\* forEach over the pairs with a callback that swallows its exception: the
\* loop goes on with the pairs after the failing one.
RECURSIVE CopyEntriesContinuing(_, _, _)
CopyEntriesContinuing(tab, c, entries) ==
  IF entries = << >> THEN [tab |-> tab, threw |-> FALSE]
  ELSE LET r == CopyEntry(tab, c, Head(entries))
           s == CopyEntriesContinuing(r.tab, c, Tail(entries))
       IN [tab |-> s.tab, threw |-> r.threw \/ s.threw]

\* forEach over the pairs; an exception of the callback ends the loop.
RECURSIVE CopyEntries(_, _, _)
CopyEntries(tab, c, entries) ==
  IF entries = << >> THEN [tab |-> tab, threw |-> FALSE]
  ELSE LET r == CopyEntry(tab, c, Head(entries)) IN
       IF r.threw THEN r ELSE CopyEntries(r.tab, c, Tail(entries))

(***************************************************************************)
(* Supplementation metadata.  meta[c] holds the symbol-keyed own           *)
(* properties of class c: completed is the state of the promise            *)
(* c[SUPPLEMENTATION_COMPLETED] ("absent" when c has no such own           *)
(* property), count is c[SUPPLEMENTATION_COUNT] (read as 0 while absent),  *)
(* gen counts the promises created for c.  The properties are read with    *)
(* mainClass[SYMBOL], that is, along the chain of the class.               *)
(***************************************************************************)
NoMeta == [completed |-> "absent", count |-> 0, gen |-> 0]

RECURSIVE MetaHolder(_, _)
MetaHolder(m, c) ==
  IF c = None THEN None
  ELSE IF m[c].completed # "absent" THEN c
  ELSE MetaHolder(m, Parent(c))

\* addSupplementationMetadata that makes a fresh promise and counter when
\* the promise it finds is already resolved.
addSupplementationMetadataRearming(m, c) ==
  IF MetaHolder(m, c) = None \/ m[MetaHolder(m, c)].completed = "resolved"
    THEN [m EXCEPT ![c] = [completed |-> "pending", count |-> 0,
                           gen |-> @.gen + 1]]
    ELSE m

\* addSupplementationMetadata that keeps the promise it finds but starts
\* its counter again at 0.
addSupplementationMetadataResetting(m, c) ==
  IF MetaHolder(m, c) = None
    THEN [m EXCEPT ![c] = [completed |-> "pending", count |-> 0,
                           gen |-> @.gen + 1]]
    ELSE [m EXCEPT ![MetaHolder(m, c)].count = 0]

addSupplementationMetadata(m, c) ==
  IF MetaHolder(m, c) = None
    THEN [m EXCEPT ![c] = [completed |-> "pending", count |-> 0,
                           gen |-> @.gen + 1]]
    ELSE m

\* mainClass[SUPPLEMENTATION_STARTED_SINGLE](): the closure found along the
\* chain increments the counter of the class it was created for.
SUPPLEMENTATION_STARTED_SINGLE(m, c) ==
  LET o == MetaHolder(m, c) IN [m EXCEPT ![o].count = @ + 1]

\* ENDED_SINGLE that tests the counter without having decremented it.
SUPPLEMENTATION_ENDED_SINGLE_Keeping(m, c) ==
  LET o == MetaHolder(m, c)
  IN [m EXCEPT ![o].completed = IF m[o].count = 0 THEN "resolved" ELSE @]

\* ENDED_SINGLE that resolves the promise without testing the counter.
SUPPLEMENTATION_ENDED_SINGLE_Resolving(m, c) ==
  LET o == MetaHolder(m, c)
  IN [m EXCEPT ![o].count = @ - 1, ![o].completed = "resolved"]

\* mainClass[SUPPLEMENTATION_ENDED_SINGLE](): decrement, and resolve the
\* promise at zero (resolving a resolved promise does nothing).
SUPPLEMENTATION_ENDED_SINGLE(m, c) ==
  LET o == MetaHolder(m, c)
      n == m[o].count - 1
  IN [m EXCEPT ![o].count = n,
               ![o].completed = IF n = 0 THEN "resolved" ELSE @]

\* mainClass[SUPPLEMENTATION_COMPLETED] as a caller reads it.
CompletionSignal(m, c) ==
  LET o == MetaHolder(m, c) IN IF o = None THEN "absent" ELSE m[o].completed

\* mainClass[SUPPLEMENTATION_COUNT] as a caller reads it (0 for undefined).
InFlight(m, c) ==
  LET o == MetaHolder(m, c) IN IF o = None THEN 0 ELSE m[o].count

(***************************************************************************)
(* supplement, after `partialClass = await partialClass`.                  *)
(***************************************************************************)
\* const PartialClass = partialClass.default || partialClass: the default
\* export of a module that has one; for a class, its static member named
\* "default" when it has a truthy one (then PartialClass is that member's
\* value, no class); otherwise the value itself.
Normalize(stat, v) ==
  IF v.tag = "module"
    THEN IF v.cls # None THEN ClassValue(v.cls) ELSE v
    ELSE IF GetProperty(stat, v.cls, "default") # Undefined
      THEN [ok |-> TRUE, tag |-> "value", cls |-> None]
      ELSE v

\* The copy with its two classes swapped: the members of the main class
\* are assigned to the partial class.
CopyPhaseIntoSource(pr, stat, m, c, v) ==
  LET P  == Normalize(stat, v)
      m1 == SUPPLEMENTATION_STARTED_SINGLE(m, c)
  IN IF P.tag # "class"
       THEN [protos |-> pr, statics |-> stat, meta |-> m1, threw |-> TRUE]
     ELSE LET r1 == CopyEntries(pr, P.cls, iterateDescriptors(pr[c])) IN
       IF r1.threw
         THEN [protos |-> r1.tab, statics |-> stat, meta |-> m1, threw |-> TRUE]
       ELSE LET r2 == CopyEntries(stat, P.cls, iterateDescriptors(stat[c])) IN
         IF r2.threw
           THEN [protos |-> r1.tab, statics |-> r2.tab, meta |-> m1,
                 threw |-> TRUE]
           ELSE [protos |-> r1.tab, statics |-> r2.tab,
                 meta |-> SUPPLEMENTATION_ENDED_SINGLE(m1, c), threw |-> FALSE]

\* The synchronous rest of supplement once the source has been awaited:
\* STARTED_SINGLE, the copy of the instance-method table, the copy of the
\* static table, ENDED_SINGLE.  threw tells that the rest ended with a
\* TypeError: the prototype of a value that is no class is undefined and
\* Object.getOwnPropertyDescriptors(undefined) throws; an assignment may
\* throw.  Nothing catches it, so what follows the throw does not run.
\* The rest of supplement with its two loops in the other order: the static
\* table is copied before the instance-method table.
CopyPhaseStaticsFirst(pr, stat, m, c, v) ==
  LET P  == Normalize(stat, v)
      m1 == SUPPLEMENTATION_STARTED_SINGLE(m, c)
  IN IF P.tag # "class"
       THEN [protos |-> pr, statics |-> stat, meta |-> m1, threw |-> TRUE]
     ELSE LET r2 == CopyEntries(stat, c, iterateDescriptors(stat[P.cls])) IN
       IF r2.threw
         THEN [protos |-> pr, statics |-> r2.tab, meta |-> m1, threw |-> TRUE]
       ELSE LET r1 == CopyEntries(pr, c, iterateDescriptors(pr[P.cls])) IN
         IF r1.threw
           THEN [protos |-> r1.tab, statics |-> r2.tab, meta |-> m1,
                 threw |-> TRUE]
           ELSE [protos |-> r1.tab, statics |-> r2.tab,
                 meta |-> SUPPLEMENTATION_ENDED_SINGLE(m1, c), threw |-> FALSE]

CopyPhase(pr, stat, m, c, v) ==
  LET P  == Normalize(stat, v)
      m1 == SUPPLEMENTATION_STARTED_SINGLE(m, c)
  IN IF P.tag # "class"
       THEN [protos |-> pr, statics |-> stat, meta |-> m1, threw |-> TRUE]
     ELSE LET r1 == CopyEntries(pr, c, iterateDescriptors(pr[P.cls])) IN
       IF r1.threw
         THEN [protos |-> r1.tab, statics |-> stat, meta |-> m1, threw |-> TRUE]
       ELSE LET r2 == CopyEntries(stat, c, iterateDescriptors(stat[P.cls])) IN
         IF r2.threw
           THEN [protos |-> r1.tab, statics |-> r2.tab, meta |-> m1,
                 threw |-> TRUE]
           ELSE [protos |-> r1.tab, statics |-> r2.tab,
                 meta |-> SUPPLEMENTATION_ENDED_SINGLE(m1, c), threw |-> FALSE]

(***************************************************************************)
(* State.                                                                  *)
(*   statics, protos  the two member tables of every class                 *)
(*   meta             the supplementation metadata of every class          *)
(*   calls            the supplement calls issued so far: target, source   *)
(*                    reference, the supplementAll call that issued it (0: *)
(*                    a direct call), and the state of the promise the     *)
(*                    call returned ("awaiting": the call is suspended at  *)
(*                    `await partialClass`)                                *)
(*   alls             the supplementAll calls issued so far ("reading":    *)
(*                    suspended at `await fs.readdir`)                     *)
(*   ran              the calls whose source has been awaited with         *)
(*                    success, in the order in which their copy phases ran *)
(*   iter             the call of iterateDescriptors that the program      *)
(*                    makes itself: its argument, and the pairs that the   *)
(*                    callback has received                                *)
(***************************************************************************)
VARIABLES statics, protos, meta, calls, alls, ran, iter

vars == << statics, protos, meta, calls, alls, ran, iter >>

\* No call of iterateDescriptors by the program.
NoIter == [cls |-> << >>, cb |-> << >>, pc |-> "none", error |-> "none"]

Init ==
  /\ statics = [c \in Classes |-> InitStatic(c)]
  /\ \E mp \in MainProtos :
       protos = [c \in Classes |-> IF c = "Main" THEN mp ELSE InitProto(c)]
  /\ meta = [c \in Classes |-> NoMeta]
  /\ calls = << >>
  /\ alls = << >>
  /\ ran = << >>
  /\ iter = NoIter

\* signalAtCall records what mainClass[SUPPLEMENTATION_COMPLETED] was when
\* the call was made.
NewCall(t, ref, by, sig) ==
  [target |-> t, ref |-> ref, by |-> by, pc |-> "awaiting", error |-> "none",
   signalAtCall |-> sig]

\* What a supplementAll call takes of the bound: the supplement calls it is
\* going to issue while it is suspended at readdir, and one unit for good
\* when it issues none.
RECURSIVE Reserved(_)
Reserved(as) ==
  IF as = << >> THEN 0
  ELSE LET n == IF Readdir(Head(as).dir).ok
                  THEN Len(SelectSeq(Readdir(Head(as).dir).files,
                                     LAMBDA f : ExtName(f) \in validExtensions))
                  ELSE 0
       IN (IF n = 0 THEN 1 ELSE IF Head(as).pc = "reading" THEN n ELSE 0)
          + Reserved(Tail(as))

\* Supplement with the counter incremented before the await instead of after
\* it.
SupplementCountingAtCall(t, ref) ==
  /\ Len(calls) + Reserved(alls) < MaxCalls
  /\ meta' = SUPPLEMENTATION_STARTED_SINGLE(addSupplementationMetadata(meta, t), t)
  /\ calls' = Append(calls, NewCall(t, ref, 0, CompletionSignal(meta, t)))
  /\ UNCHANGED << statics, protos, alls, ran, iter >>

\* supplement that does not suspend when it is handed a class: the copy
\* runs in the call itself.
SupplementEager(t, ref) ==
  /\ Len(calls) + Reserved(alls) < MaxCalls
  /\ IF ref.kind = "class"
       THEN LET r == CopyPhase(protos, statics,
                               addSupplementationMetadata(meta, t), t,
                               Awaited(ref))
            IN /\ protos' = r.protos
               /\ statics' = r.statics
               /\ meta' = r.meta
               /\ calls' = Append(calls,
                    [NewCall(t, ref, 0, CompletionSignal(meta, t)) EXCEPT
                       !.pc = IF r.threw THEN "rejected" ELSE "fulfilled",
                       !.error = IF r.threw THEN "TypeError" ELSE "none"])
       ELSE /\ meta' = addSupplementationMetadata(meta, t)
            /\ calls' = Append(calls, NewCall(t, ref, 0, CompletionSignal(meta, t)))
            /\ UNCHANGED << statics, protos >>
  /\ UNCHANGED << alls, ran, iter >>

\* supplement(mainClass, partialClass) up to its await: the metadata is
\* added, a string is handed to the loader, and the call suspends.
Supplement(t, ref) ==
  /\ Len(calls) + Reserved(alls) < MaxCalls
  /\ meta' = addSupplementationMetadata(meta, t)
  /\ calls' = Append(calls, NewCall(t, ref, 0, CompletionSignal(meta, t)))
  /\ UNCHANGED << statics, protos, alls, ran, iter >>

\* supplement catching the failure of its await and resolving the signal
\* before it rethrows.
SourceRejectedResolving(i) ==
  /\ calls[i].pc = "awaiting"
  /\ ~Awaited(calls[i].ref).ok
  /\ calls' = [calls EXCEPT ![i].pc = "rejected", ![i].error = "load"]
  /\ meta' = [meta EXCEPT ![MetaHolder(meta, calls[i].target)].completed =
                            "resolved"]
  /\ UNCHANGED << statics, protos, alls, ran, iter >>

\* The awaited promise rejects: the call's promise rejects with that error.
SourceRejected(i) ==
  /\ calls[i].pc = "awaiting"
  /\ ~Awaited(calls[i].ref).ok
  /\ calls' = [calls EXCEPT ![i].pc = "rejected", ![i].error = "load"]
  /\ UNCHANGED << statics, protos, meta, alls, ran, iter >>

\* The rest of supplement suspending between its two copy loops: the step
\* increments the counter, copies the instance members and leaves the call
\* in its copy phase.
SourceResolvedSuspending(i) ==
  /\ calls[i].pc = "awaiting"
  /\ Awaited(calls[i].ref).ok
  /\ LET t == calls[i].target
         P == Normalize(statics, Awaited(calls[i].ref))
     IN /\ meta' = SUPPLEMENTATION_STARTED_SINGLE(meta, t)
        /\ protos' = IF P.tag = "class"
                       THEN CopyEntries(protos, t, iterateDescriptors(protos[P.cls])).tab
                       ELSE protos
  /\ calls' = [calls EXCEPT ![i].pc = "copying"]
  /\ ran' = Append(ran, i)
  /\ UNCHANGED << statics, alls, iter >>

\* The awaited promise fulfils: the rest of supplement runs to its end
\* without suspending.
SourceResolved(i) ==
  /\ calls[i].pc = "awaiting"
  /\ Awaited(calls[i].ref).ok
  /\ LET r == CopyPhase(protos, statics, meta, calls[i].target,
                        Awaited(calls[i].ref))
     IN /\ protos' = r.protos
        /\ statics' = r.statics
        /\ meta' = r.meta
        /\ calls' = [calls EXCEPT
                       ![i].pc = IF r.threw THEN "rejected" ELSE "fulfilled",
                       ![i].error = IF r.threw THEN "TypeError" ELSE "none"]
  /\ ran' = Append(ran, i)
  /\ UNCHANGED << alls, iter >>

\* supplementAll creating the metadata of the main class itself, before it
\* lists the directory.
SupplementAllWithMetadata(t, d) ==
  /\ Len(calls) + Reserved(Append(alls, [target |-> t, dir |-> d,
                                         pc |-> "reading"])) <= MaxCalls
  /\ alls' = Append(alls, [target |-> t, dir |-> d, pc |-> "reading"])
  /\ meta' = addSupplementationMetadata(meta, t)
  /\ UNCHANGED << statics, protos, calls, ran, iter >>

\* supplementAll(mainClass, directory) up to `await fs.readdir(directory)`.
SupplementAll(t, d) ==
  /\ Len(calls) + Reserved(Append(alls, [target |-> t, dir |-> d,
                                         pc |-> "reading"])) <= MaxCalls
  /\ alls' = Append(alls, [target |-> t, dir |-> d, pc |-> "reading"])
  /\ UNCHANGED << statics, protos, meta, calls, ran, iter >>

\* readdir fails: supplementAll rejects.
ReaddirRejected(j) ==
  /\ alls[j].pc = "reading"
  /\ ~Readdir(alls[j].dir).ok
  /\ alls' = [alls EXCEPT ![j].pc = "rejected"]
  /\ UNCHANGED << statics, protos, meta, calls, ran, iter >>

\* The loop without its test of the extension.
AcceptedAll(files) == files

\* The files of the listing that the loop of supplementAll accepts.
Accepted(files) ==
  SelectSeq(files, LAMBDA f : ExtName(f) \in validExtensions)

\* The loop of supplementAll: one supplement(mainClass, modulePath) per
\* accepted file, each run up to its await and not awaited.
RECURSIVE IssueAll(_, _, _, _, _)
IssueAll(m, cs, t, files, j) ==
  IF files = << >> THEN [meta |-> m, calls |-> cs]
  ELSE IssueAll(addSupplementationMetadata(m, t),
                Append(cs, NewCall(t, PathRef(Head(files)), j,
                                   CompletionSignal(m, t))),
                t, Tail(files), j)

\* supplementAll staying suspended after its loop, on the calls it issued.
ReaddirResolvedAwaiting(j) ==
  /\ alls[j].pc = "reading"
  /\ Readdir(alls[j].dir).ok
  /\ LET r == IssueAll(meta, calls, alls[j].target,
                       Accepted(Readdir(alls[j].dir).files), j)
     IN /\ meta' = r.meta
        /\ calls' = r.calls
  /\ alls' = [alls EXCEPT ![j].pc = "issued"]
  /\ UNCHANGED << statics, protos, ran, iter >>

\* supplementAll creating the metadata of the main class itself, after the
\* listing and before its loop.
ReaddirResolvedWithMetadata(j) ==
  /\ alls[j].pc = "reading"
  /\ Readdir(alls[j].dir).ok
  /\ LET r == IssueAll(addSupplementationMetadata(meta, alls[j].target), calls,
                       alls[j].target,
                       Accepted(Readdir(alls[j].dir).files), j)
     IN /\ meta' = r.meta
        /\ calls' = r.calls
  /\ alls' = [alls EXCEPT ![j].pc = "fulfilled"]
  /\ UNCHANGED << statics, protos, ran, iter >>

\* readdir fulfils: the loop runs and supplementAll returns.
ReaddirResolved(j) ==
  /\ alls[j].pc = "reading"
  /\ Readdir(alls[j].dir).ok
  /\ LET r == IssueAll(meta, calls, alls[j].target,
                       Accepted(Readdir(alls[j].dir).files), j)
     IN /\ meta' = r.meta
        /\ calls' = r.calls
  /\ alls' = [alls EXCEPT ![j].pc = "fulfilled"]
  /\ UNCHANGED << statics, protos, ran, iter >>

\* The main classes that the program of Spec supplements.
MainClasses == {"Main"}

Next ==
  \/ \E t \in MainClasses, ref \in DirectRefs : Supplement(t, ref)
  \/ \E i \in 1..Len(calls) : SourceRejected(i)
  \/ \E i \in 1..Len(calls) : SourceResolved(i)
  \/ \E t \in MainClasses, d \in Dirs : SupplementAll(t, d)
  \/ \E j \in 1..Len(alls) : ReaddirRejected(j)
  \/ \E j \in 1..Len(alls) : ReaddirResolved(j)

Spec == Init /\ [][Next]_vars

\* The directory listing always answers; nothing makes a module loader
\* answer, a source may stay unresolved for ever.
SpecFair ==
  Spec /\ WF_vars(\E j \in 1..Len(alls) : ReaddirResolved(j) \/ ReaddirRejected(j))

(***************************************************************************)
(* The program that passes one source in each of the ways supplement       *)
(* accepts: the class itself, a path that the loader resolves to a module  *)
(* whose default export is the class, a promise of the class, a promise of *)
(* the module (import(path)); and a path that does not load.               *)
(***************************************************************************)
RefsOf(c, p) == { ClassRef(c), PathRef(p), PromiseRef(c), ImportRef(p) }

EquivRefs ==
  RefsOf("PartD", <<"partD", "mjs">>)
    \cup { ClassRef("PartB"), PathRef(<<"partB", "ts">>) }
    \cup { PathRef(<<"broken", "js">>) }

NextRef ==
  \/ \E ref \in EquivRefs : Supplement("Main", ref)
  \/ \E i \in 1..Len(calls) : SourceRejected(i)
  \/ \E i \in 1..Len(calls) : SourceResolved(i)

SpecRef == Init /\ [][NextRef]_vars

(***************************************************************************)
(* The program that calls iterateDescriptors itself, as the test suite of  *)
(* utils does: on an object with up to MaxMembers own members, methods,    *)
(* read-only members and accessors, with or without a "constructor" of any *)
(* descriptor, and with or without inherited members.                      *)
(***************************************************************************)
MaxMembers == 4

IterPool ==
  { Method("constructor", "T"), ReadOnly("constructor", "T"),
    Accessor("constructor", FALSE),
    ReadOnly("length", "0"), ReadOnly("name", "T"),
    ReadOnly("prototype", "T.prototype"),
    Method("m", "T.m"), ReadOnly("ro", "T.ro"), Accessor("acc", TRUE) }

\* The tables of own members: no two members of an object share a key.
IterTables ==
  { t \in UNION { [1..n -> IterPool] : n \in 0..MaxMembers } :
      \A a, b \in 1..Len(t) : t[a].key = t[b].key => a = b }

\* What the object may inherit (class T extends Base).
Inherited == << Method("m", "Base.m"), Method("inheritedMethod", "Base.i") >>

\* The arguments of the call: an object, null or undefined.
IterArgs ==
  { [kind |-> "object", own |-> t, inherited |-> h] :
      t \in IterTables, h \in {<< >>, Inherited} }
    \cup { [kind |-> k, own |-> << >>, inherited |-> << >>] :
             k \in {"null", "undefined"} }

InitIter ==
  /\ statics = [c \in Classes |-> InitStatic(c)]
  /\ protos = [c \in Classes |-> InitProto(c)]
  /\ meta = [c \in Classes |-> NoMeta]
  /\ calls = << >>
  /\ alls = << >>
  /\ ran = << >>
  /\ \E arg \in IterArgs :
       iter = [cls |-> arg, cb |-> << >>, pc |-> "ready", error |-> "none"]

\* iterateDescriptors that takes null and undefined for an object without
\* members.
IterateDescriptorsLenient ==
  /\ iter.pc = "ready"
  /\ iter' = [iter EXCEPT !.cb = iterateDescriptors(iter.cls.own),
                          !.pc = "done"]
  /\ UNCHANGED << statics, protos, meta, calls, alls, ran >>

\* iterateDescriptors(cls, cb) with a callback that collects its arguments.
\* Object.getOwnPropertyDescriptors(cls) throws a TypeError for null and
\* undefined, before anything is iterated.
IterateDescriptors ==
  /\ iter.pc = "ready"
  /\ iter' = IF iter.cls.kind = "object"
               THEN [iter EXCEPT !.cb = iterateDescriptors(iter.cls.own),
                                 !.pc = "done"]
               ELSE [iter EXCEPT !.pc = "threw", !.error = "TypeError"]
  /\ UNCHANGED << statics, protos, meta, calls, alls, ran >>

NextIter == IterateDescriptors

SpecIter == InitIter /\ [][NextIter]_vars

(***************************************************************************)
(* Vocabulary of the properties.                                           *)
(***************************************************************************)
CallIds == 1..Len(calls)
CallsOn(t) == {i \in CallIds : calls[i].target = t}
\* The supplement calls that supplementAll call j issued.
Batch(j) == {i \in CallIds : calls[i].by = j}
Signal(t) == CompletionSignal(meta, t)
Counts(m) == [c \in Classes |-> m[c].count]

Members(table) == {table[i] : i \in 1..Len(table)}
Keys(table) == {e.key : e \in Members(table)}
\* The own members of a table that are writable, "constructor" apart.
WritableMembers(table) ==
  {e \in Members(table) : e.kind = "data" /\ e.writable /\ e.key # "constructor"}
\* The own members of a table that are not writable: read-only data members
\* and accessors.
NonWritableMembers(table) ==
  {e \in Members(table) : e.kind = "accessor" \/ ~e.writable}

\* The class that call i copies from: the awaited value when it is a class,
\* the default export when it is a module (None: the loader fails, or the
\* value is no class).
SourceClass(i) ==
  LET v == Awaited(calls[i].ref) IN
  IF ~v.ok THEN None
  ELSE IF v.tag = "module" THEN v.cls
  ELSE v.cls

\* Class c defines or inherits k as an accessor in the table.
IsAccessor(tab, c, k) ==
  /\ Definer(tab, c, k) # None
  /\ Own(tab[Definer(tab, c, k)], k).kind = "accessor"

\* The copy phase of call i runs in this step.
Copies(i) == calls[i].pc = "awaiting" /\ ran' = Append(ran, i)

\* Call i settles in this step.
Fulfils(i) == calls[i].pc = "awaiting" /\ calls'[i].pc = "fulfilled"
Rejects(i) == calls[i].pc = "awaiting" /\ calls'[i].pc = "rejected"

(***************************************************************************)
(* C1.  After supplementAll has issued k >= 2 supplement calls on a main   *)
(* class that has no other call, the completion signal is pending as long  *)
(* as one of the k calls has not finished its copy phase; and once the     *)
(* signal is resolved every writable member of every source of the batch   *)
(* is on the main class.                                                   *)
(***************************************************************************)
C1_SignalPendingUntilBatchCopied ==
  \A j \in 1..Len(alls) :
    LET t == alls[j].target
        B == Batch(j)
    IN (alls[j].pc = "fulfilled" /\ Cardinality(B) >= 2 /\ CallsOn(t) = B) =>
         /\ (\E i \in B : calls[i].pc = "awaiting") => Signal(t) = "pending"
         /\ Signal(t) = "resolved" =>
              \A i \in B : SourceClass(i) # None =>
                /\ \A e \in WritableMembers(protos[SourceClass(i)]) :
                     e.key \in Keys(protos[t])
                /\ \A e \in WritableMembers(statics[SourceClass(i)]) :
                     e.key \in Keys(statics[t])

(***************************************************************************)
(* C2.  A supplement call whose source the loader fails to load never      *)
(* increments a counter and never writes a member: each step that such a   *)
(* call takes (being issued, being rejected) leaves every in-flight        *)
(* counter and both member tables of every class as they were, and the     *)
(* call is not fulfilled.  (The counter of a main class without metadata   *)
(* reads 0; the step that issues the call gives it metadata with the       *)
(* counter at 0.)                                                          *)
(***************************************************************************)
C2_FailedLoadNeverCounts ==
  [][\A i \in 1..Len(calls') :
       (/\ ~Awaited(calls'[i].ref).ok
        /\ (i > Len(calls) \/ calls'[i] # calls[i]))
       => /\ Counts(meta') = Counts(meta)
          /\ statics' = statics
          /\ protos' = protos
          /\ calls'[i].pc \in {"awaiting", "rejected"}
          /\ calls'[i].pc = "rejected" => calls'[i].error = "load" /\ meta' = meta
    ]_vars

\* A call has failed at the loader on a main class that is as it was made.
C2_Witness ==
  \E i \in CallIds :
    /\ calls[i].pc = "rejected" /\ calls[i].error = "load"
    /\ InFlight(meta, calls[i].target) = 0
    /\ statics[calls[i].target] = InitStatic(calls[i].target)
    /\ protos[calls[i].target] \in MainProtos

(***************************************************************************)
(* C3.  Once every supplement call issued on a main class has settled and  *)
(* at least one of them has been fulfilled, the completion signal of the   *)
(* main class is resolved.                                                 *)
(***************************************************************************)
C3_SignalResolvedOnceSuccessesFinish ==
  \A t \in Targets :
    (/\ \E i \in CallsOn(t) : calls[i].pc = "fulfilled"
     /\ \A i \in CallsOn(t) : calls[i].pc # "awaiting")
    => Signal(t) = "resolved"

(***************************************************************************)
(* C4.  The completion signal of a main class, once resolved, stays        *)
(* resolved, and the promise is never replaced by another one, whatever    *)
(* calls are issued or settle afterwards; a call issued when the signal    *)
(* was already resolved and fulfilled in this step has run its copy phase, *)
(* leaving on the main class each writable member of its source that the   *)
(* main class does not define as an accessor.                              *)
(***************************************************************************)
C4_SignalResolvesOnce ==
  [][\A t \in Targets :
       /\ Signal(t) = "resolved" => CompletionSignal(meta', t) = "resolved"
       /\ meta[t].completed # "absent" =>
            /\ meta'[t].gen = meta[t].gen
            /\ meta'[t].completed # "absent"
       /\ \A i \in CallsOn(t) :
            (Fulfils(i) /\ calls[i].signalAtCall = "resolved") =>
              /\ ran' = Append(ran, i)
              /\ meta'[t].count = meta[t].count
              /\ \A e \in WritableMembers(protos[SourceClass(i)]) :
                   \/ GetProperty(protos', t, e.key) = e.value
                   \/ IsAccessor(protos, t, e.key)
              /\ \A e \in WritableMembers(statics[SourceClass(i)]) :
                   GetProperty(statics', t, e.key) = e.value
    ]_vars

\* A call issued after the signal was resolved has been fulfilled and has
\* copied; the signal is the promise made first and is resolved.
C4_Witness ==
  \E i \in CallIds :
    LET t == calls[i].target IN
    /\ calls[i].signalAtCall = "resolved"
    /\ calls[i].pc = "fulfilled"
    /\ SourceClass(i) = "PartB"
    /\ GetProperty(statics, t, "h") = "PartB.h"
    /\ GetProperty(protos, t, "m") = "PartB.m"
    /\ meta[t] = [completed |-> "resolved", count |-> 0, gen |-> 1]

(***************************************************************************)
(* C5.  When a supplement call is fulfilled, the instance-method table of  *)
(* its main class has, for every own writable member of the source's       *)
(* instance-method table other than "constructor", an own entry of that    *)
(* name with that value, and likewise the static tables; and the call has  *)
(* written no entry named "constructor".                                   *)
(***************************************************************************)
C5_FulfilledCallCopiedAll ==
  [][\A i \in CallIds : Fulfils(i) =>
       LET t == calls[i].target
           S == SourceClass(i)
       IN /\ \A e \in WritableMembers(protos[S]) :
               /\ HasOwn(protos'[t], e.key)
               /\ Own(protos'[t], e.key).value = e.value
          /\ \A e \in WritableMembers(statics[S]) :
               /\ HasOwn(statics'[t], e.key)
               /\ Own(statics'[t], e.key).value = e.value
          /\ Own(protos'[t], "constructor") = Own(protos[t], "constructor")
          /\ ~HasOwn(statics'[t], "constructor")
    ]_vars

(***************************************************************************)
(* C6.  The copy phase of a supplement call, fulfilled or not, copies no   *)
(* own member of its source that is not writable (a read-only data member  *)
(* or an accessor), in either table: the main class gets no own entry of   *)
(* that name in that table, and an entry of that name it had stays as it   *)
(* was.                                                                    *)
(***************************************************************************)
C6_NonWritableNeverCopied ==
  [][\A i \in CallIds : (Copies(i) /\ SourceClass(i) # None) =>
       LET t == calls[i].target
           S == SourceClass(i)
       IN /\ \A e \in NonWritableMembers(protos[S]) :
               /\ HasOwn(protos'[t], e.key) => HasOwn(protos[t], e.key)
               /\ HasOwn(protos[t], e.key) =>
                    Own(protos'[t], e.key) = Own(protos[t], e.key)
          /\ \A e \in NonWritableMembers(statics[S]) :
               /\ HasOwn(statics'[t], e.key) => HasOwn(statics[t], e.key)
               /\ HasOwn(statics[t], e.key) =>
                    Own(statics'[t], e.key) = Own(statics[t], e.key)
    ]_vars

\* A call with source PartA (accessors g and acc, read-only ro, name, length
\* and prototype) has been fulfilled: its methods are on Main, its
\* non-writable members are not.
C6_Witness ==
  \E i \in CallIds :
    /\ calls[i].pc = "fulfilled" /\ SourceClass(i) = "PartA"
    /\ calls[i].target = "Main"
    /\ GetProperty(protos, "Main", "a") = "PartA.a"
    /\ GetProperty(statics, "Main", "h") = "PartA.h"
    /\ ~HasOwn(protos["Main"], "g")
    /\ ~HasOwn(statics["Main"], "ro")
    /\ ~HasOwn(statics["Main"], "acc")
    /\ Own(statics["Main"], "name").value = "Main"

(***************************************************************************)
(* C7.  When the copy phase of a supplement call runs and the main class   *)
(* already has an own member with the name of a writable member of the     *)
(* source in the same table, the call is fulfilled (no error is raised)    *)
(* and afterwards the lookup of that name on the main class, or on its     *)
(* instances, yields the source's value.                                   *)
(***************************************************************************)
C7_ExistingMemberReplaced ==
  [][\A i \in CallIds : (Copies(i) /\ SourceClass(i) # None) =>
       LET t == calls[i].target
           S == SourceClass(i)
       IN /\ \A e \in WritableMembers(protos[S]) :
               HasOwn(protos[t], e.key) =>
                 /\ calls'[i].pc = "fulfilled"
                 /\ GetProperty(protos', t, e.key) = e.value
          /\ \A e \in WritableMembers(statics[S]) :
               HasOwn(statics[t], e.key) =>
                 /\ calls'[i].pc = "fulfilled"
                 /\ GetProperty(statics', t, e.key) = e.value
    ]_vars

(***************************************************************************)
(* C8.  When two supplement calls on the same main class have two sources  *)
(* that define a writable member m in the same table, once both calls      *)
(* are fulfilled and no other copy phase has run, the lookup of m on the   *)
(* main class yields the m of the source whose copy phase ran last,        *)
(* whichever of the two ran last.                                          *)
(***************************************************************************)
C8_LastWriterWins ==
  \A i, j \in CallIds :
    (/\ ran = <<i, j>>
     /\ calls[i].target = calls[j].target
     /\ SourceClass(i) # SourceClass(j)
     /\ calls[i].pc = "fulfilled" /\ calls[j].pc = "fulfilled") =>
      LET t == calls[j].target
          Si == SourceClass(i)
          Sj == SourceClass(j)
      IN /\ \A e \in WritableMembers(protos[Sj]) :
              e.key \in {f.key : f \in WritableMembers(protos[Si])} =>
                GetProperty(protos, t, e.key) = e.value
         /\ \A e \in WritableMembers(statics[Sj]) :
              e.key \in {f.key : f \in WritableMembers(statics[Si])} =>
                GetProperty(statics, t, e.key) = e.value

C10_FulfilledOnlyWhenVisible ==
  [][\A i \in CallIds : Fulfils(i) =>
       LET t == calls[i].target
           S == SourceClass(i)
       IN /\ \A e \in WritableMembers(protos[S]) :
               GetProperty(protos', t, e.key) = e.value
          /\ \A e \in WritableMembers(statics[S]) :
               GetProperty(statics', t, e.key) = e.value
    ]_vars

(***************************************************************************)
(* C11.  When supplement is called on a main class for the first time (as  *)
(* its static initialization block does) and is not awaited, the writable  *)
(* static and instance members of the source are on the main class in the  *)
(* state in which the call returns its promise, the state that the code    *)
(* right after the class definition runs in.                               *)
(***************************************************************************)
C11_MembersOnTargetAfterCall ==
  [][\A t \in Targets :
       (/\ meta[t].completed = "absent"
        /\ Len(calls') = Len(calls) + 1
        /\ calls'[Len(calls')].target = t
        /\ calls'[Len(calls')].by = 0) =>
         LET v == Awaited(calls'[Len(calls')].ref) IN
         (v.ok /\ v.cls # None) =>
           /\ \A e \in WritableMembers(protos[v.cls]) :
                GetProperty(protos', t, e.key) = e.value
           /\ \A e \in WritableMembers(statics[v.cls]) :
                GetProperty(statics', t, e.key) = e.value
    ]_vars

(***************************************************************************)
(* C12.  The copy phase of a supplement call whose reference denotes the   *)
(* class S leaves the static and instance tables of the main class as the  *)
(* copy phase would leave them had S been passed in any other way: as the  *)
(* class itself, or as (a path to, a promise of) a module whose default    *)
(* export is S.                                                            *)
(***************************************************************************)
C12_SameTablesForEveryKindOfReference ==
  [][\A i \in CallIds : (Copies(i) /\ SourceClass(i) # None) =>
       LET t == calls[i].target
           S == SourceClass(i)
       IN \A v \in {ClassValue(S), ModuleValue(S)} :
            LET r == CopyPhase(protos, statics, meta, t, v)
            IN protos' = r.protos /\ statics' = r.statics
    ]_vars

(***************************************************************************)
(* C13.  The step in which supplementAll runs its loop issues exactly one  *)
(* supplement call, on the main class and with the entry's path, for each  *)
(* entry of the listing whose extension is js, ts, mjs or cjs, and no call *)
(* for another entry; it touches no earlier call, and no call issued by a  *)
(* supplementAll ever has a path with another extension, so that nothing   *)
(* is ever copied from such an entry.                                      *)
(***************************************************************************)
C13_OneCallPerAcceptedEntry ==
  [][\A j \in 1..Len(alls) :
       (alls[j].pc = "reading" /\ alls'[j].pc = "fulfilled") =>
         LET files == Readdir(alls[j].dir).files
             Kinds == {"js", "ts", "mjs", "cjs"}
             Ok(f) == Len(f) >= 2 /\ f[Len(f)] \in Kinds
             New   == (Len(calls) + 1)..Len(calls')
         IN /\ SubSeq(calls', 1, Len(calls)) = calls
            /\ \A n \in New :
                 /\ calls'[n].by = j
                 /\ calls'[n].target = alls[j].target
                 /\ calls'[n].ref.kind = "path"
                 /\ calls'[n].pc = "awaiting"
            /\ \A k \in 1..Len(files) :
                 Cardinality({n \in New : calls'[n].ref.path = files[k]})
                   = IF Ok(files[k]) THEN 1 ELSE 0
            /\ Cardinality(New) = Cardinality({k \in 1..Len(files) : Ok(files[k])})
            /\ \A i \in 1..Len(calls') :
                 calls'[i].by # 0 =>
                   calls'[i].ref.path[Len(calls'[i].ref.path)] \in Kinds
    ]_vars

\* supplementAll over a directory with partA.js, notes.md and partB.ts has
\* issued its calls: two, for partA.js and partB.ts, and both have copied.
C13_Witness ==
  \E j \in 1..Len(alls) :
    /\ alls[j].pc = "fulfilled" /\ alls[j].dir = "partials"
    /\ Cardinality(Batch(j)) = 2
    /\ {calls[i].ref.path : i \in Batch(j)} = {<<"partA", "js">>, <<"partB", "ts">>}
    /\ \A i \in Batch(j) : calls[i].pc = "fulfilled"
    /\ \A i \in CallIds : calls[i].ref.path # <<"notes", "md">>

(***************************************************************************)
(* C14.  The promise that supplementAll returned is fulfilled only in      *)
(* states where every supplement call it issued has finished its copy      *)
(* phase.                                                                  *)
(***************************************************************************)
C14_SupplementAllFulfilledAfterCopies ==
  \A j \in 1..Len(alls) :
    alls[j].pc = "fulfilled" => \A i \in Batch(j) : calls[i].pc # "awaiting"

C16_OthersOfBatchCopied ==
  [][\A i \in CallIds :
       (/\ Copies(i)
        /\ calls[i].by # 0
        /\ SourceClass(i) # None
        /\ \E k \in Batch(calls[i].by) : ~Awaited(calls[k].ref).ok) =>
         LET t == calls[i].target
             S == SourceClass(i)
         IN /\ calls'[i].pc = "fulfilled"
            /\ \A e \in WritableMembers(protos[S]) :
                 GetProperty(protos', t, e.key) = e.value
            /\ \A e \in WritableMembers(statics[S]) :
                 GetProperty(statics', t, e.key) = e.value
    ]_vars

(***************************************************************************)
(* C17.  The copy phase of a supplement call transfers no own data member  *)
(* of the source whose value is not callable (a static field that holds a  *)
(* string, say), writable or not: the main class gets no own entry of that *)
(* name in that table, and an entry of that name it had stays as it was.   *)
(***************************************************************************)
C17_OnlyMethodsCopied ==
  [][\A i \in CallIds : (Copies(i) /\ SourceClass(i) # None) =>
       LET t == calls[i].target
           S == SourceClass(i)
           Fields(table) ==
             {e \in Members(table) : e.kind = "data" /\ ~Callable(e.value)
                                     /\ e.key # "constructor"}
       IN /\ \A e \in Fields(protos[S]) :
               /\ HasOwn(protos'[t], e.key) => HasOwn(protos[t], e.key)
               /\ HasOwn(protos[t], e.key) =>
                    Own(protos'[t], e.key) = Own(protos[t], e.key)
          /\ \A e \in Fields(statics[S]) :
               /\ HasOwn(statics'[t], e.key) => HasOwn(statics[t], e.key)
               /\ HasOwn(statics[t], e.key) =>
                    Own(statics'[t], e.key) = Own(statics[t], e.key)
    ]_vars

C19_OnlyWritableYielded ==
  iter.pc = "done" =>
    \A n \in 1..Len(iter.cb) :
      iter.cb[n].kind = "data" /\ iter.cb[n].writable

(***************************************************************************)
(* C20.  For a class that declares nothing, or nothing but a constructor,  *)
(* iterateDescriptors hands nothing to the callback, for the class and for *)
(* its prototype; for a class that declares one static method it hands     *)
(* over exactly that method.                                               *)
(***************************************************************************)
C20_EmptyClassYieldsNothing ==
  iter.pc = "done" =>
    /\ iter.cls.own = ClassOwn("T") => iter.cb = << >>
    /\ iter.cls.own = << Method("constructor", "T") >> => iter.cb = << >>
    /\ iter.cls.own = ClassOwn("T") \o << Method("m", "T.m") >>
         => iter.cb = << Method("m", "T.m") >>

(***************************************************************************)
(* C21.  iterateDescriptors called with null or undefined fails in the     *)
(* call itself with a TypeError, and the callback has not been invoked.    *)
(***************************************************************************)
C21_NullOrUndefinedThrows ==
  (iter.pc \notin {"none", "ready"} /\ iter.cls.kind \in {"null", "undefined"}) =>
    /\ iter.pc = "threw"
    /\ iter.error = "TypeError"
    /\ iter.cb = << >>

\* iterateDescriptors(null, cb) has thrown.
C21_Witness ==
  iter.pc = "threw" /\ iter.cls.kind = "null" /\ iter.error = "TypeError"

(***************************************************************************)
(* C22.  Whatever supplement calls have been made, the two member tables   *)
(* of every partial class (keys, values, descriptor flags, order) are what *)
(* they were at the start, and no partial class has supplementation        *)
(* metadata.                                                               *)
(***************************************************************************)
C22_SourcesUnchanged ==
  \A c \in Sources :
    /\ statics[c] = InitStatic(c)
    /\ protos[c] = InitProto(c)
    /\ meta[c] = NoMeta
    /\ CompletionSignal(meta, c) = "absent"

\* Calls with the sources PartA, PartB and PartC have run their copy phases
\* on Main, the last one ending with a TypeError, and Main has their members.
C22_Witness ==
  /\ {SourceClass(i) : i \in {k \in CallIds : calls[k].pc # "awaiting"}}
       = {"PartA", "PartB", "PartC"}
  /\ GetProperty(protos, "Main", "a") = "PartA.a"
  /\ GetProperty(protos, "Main", "c") = "PartC.c"
  /\ GetProperty(statics, "Main", "version") = Version

(***************************************************************************)
(* C23.  The completion signal of a main class is not resolved at the      *)
(* start, and it becomes resolved exactly in the steps in which the        *)
(* decrement of a supplement call on that class brings the in-flight       *)
(* counter to 0: a step that resolves it is the copy phase of a call that  *)
(* is fulfilled and leaves the counter at 0, and every such step leaves it *)
(* resolved.  Creating the metadata, a failed load and a copy phase that   *)
(* throws after its increment do not resolve it.                           *)
(***************************************************************************)
C23_ResolvedExactlyAtZero ==
  /\ \A t \in Targets : meta[t].completed # "resolved"
  /\ [][\A t \in Targets :
          /\ (meta[t].completed # "resolved" /\ meta'[t].completed = "resolved") =>
               \E i \in CallsOn(t) :
                 /\ Copies(i) /\ Fulfils(i)
                 /\ meta'[t].count = 0
                 /\ SUPPLEMENTATION_STARTED_SINGLE(meta, t)[t].count = 1
          /\ \A i \in CallsOn(t) :
               (Fulfils(i) /\ meta'[t].count = 0) =>
                 meta'[t].completed = "resolved"
          /\ \A i \in CallsOn(t) :
               (Rejects(i) /\ meta[t].completed # "resolved") =>
                 meta'[t].completed # "resolved"
     ]_vars

\* A call on Main failed to load, another was fulfilled and brought the
\* counter back to 0: the signal is resolved; a third call is suspended.
C23_Witness ==
  /\ Signal("Main") = "resolved" /\ InFlight(meta, "Main") = 0
  /\ \E i, j, k \in CallsOn("Main") :
       /\ calls[i].pc = "rejected" /\ calls[i].error = "load"
       /\ calls[j].pc = "fulfilled"
       /\ calls[k].pc = "awaiting"

(***************************************************************************)
(* C24.  As long as a supplement call on a main class is suspended on its  *)
(* source (which it is for ever when the source never resolves), the       *)
(* in-flight counter of the class is above zero and its completion signal  *)
(* is pending, whatever other calls on the class have resolved and         *)
(* finished.                                                               *)
(***************************************************************************)
C24_HungCallKeepsSignalPending ==
  \A t \in MainClasses :
    (\E i \in CallsOn(t) : calls[i].pc = "awaiting") =>
      /\ InFlight(meta, t) > 0
      /\ Signal(t) = "pending"

(***************************************************************************)
(* C25.  In every state the in-flight counter of a main class is the       *)
(* number of supplement calls on it that have been issued and have not     *)
(* finished, those that still wait for their source included, and it is    *)
(* not negative.                                                           *)
(***************************************************************************)
C25_CounterCountsUnfinishedCalls ==
  \A t \in MainClasses :
    /\ InFlight(meta, t) = Cardinality({i \in CallsOn(t) : calls[i].pc = "awaiting"})
    /\ InFlight(meta, t) >= 0

(***************************************************************************)
(* C26.  As long as no copy phase on a main class has failed, the          *)
(* in-flight counter of the class is 0 in every state (no copy phase is    *)
(* executing between two steps), however many calls are suspended, and a   *)
(* copy phase that starts raises it to 1, not higher.                      *)
(***************************************************************************)
C26_CounterZeroBetweenCopyPhases ==
  \A t \in MainClasses :
    (\A i \in CallsOn(t) : calls[i].error # "TypeError") =>
      /\ meta[t].count = 0
      /\ meta[t].completed # "absent" =>
           SUPPLEMENTATION_STARTED_SINGLE(meta, t)[t].count = 1

\* Three calls were issued on Main before any resolved; one has finished
\* its copy phase, two are suspended, no copy has failed and the counter
\* is 0.
C26_Witness ==
  /\ Cardinality(CallsOn("Main")) = 3
  /\ \A i \in CallIds : calls[i].signalAtCall # "resolved" /\ calls[i].error = "none"
  /\ Cardinality({i \in CallIds : calls[i].pc = "fulfilled"}) = 1
  /\ Cardinality({i \in CallIds : calls[i].pc = "awaiting"}) = 2
  /\ meta["Main"].count = 0

(***************************************************************************)
(* C27.  The copy phases of the calls on a main class do not interleave.   *)
(* No state lies inside a copy phase: the counter of the class is the      *)
(* number of copy phases on it that have thrown, none being open.  And a   *)
(* step that writes a member of the class, changes its counter or resolves *)
(* its signal is the whole copy phase of one call on it, from the          *)
(* increment to the decrement or the throw; no other call moves in that    *)
(* step.  The calls may resolve in any order.                              *)
(***************************************************************************)
C27_CopyPhasesDoNotInterleave ==
  /\ [](\A t \in MainClasses :
          meta[t].count
            = Cardinality({i \in CallsOn(t) : calls[i].error = "TypeError"}))
  /\ [][\A t \in MainClasses :
          (\/ statics'[t] # statics[t]
           \/ protos'[t] # protos[t]
           \/ meta'[t].count # meta[t].count
           \/ (meta[t].completed # "resolved" /\ meta'[t].completed = "resolved")) =>
            \E i \in CallsOn(t) :
              /\ Copies(i)
              /\ calls'[i].pc \in {"fulfilled", "rejected"}
              /\ Len(calls') = Len(calls)
              /\ \A k \in CallIds \ {i} : calls'[k] = calls[k]
              /\ meta'[t].count \in {meta[t].count, meta[t].count + 1}
              /\ meta'[t].count = meta[t].count + 1 <=> calls'[i].pc = "rejected"
     ]_vars

\* Two calls on Main, with PartA and PartB, resolved in the order opposite
\* to that of the calls, and each copy phase ran in one piece: Main's h is
\* that of the call that ran last.
C27_Witness ==
  /\ Len(calls) = 2 /\ ran = <<2, 1>>
  /\ calls[1].pc = "fulfilled" /\ calls[2].pc = "fulfilled"
  /\ SourceClass(1) = "PartA" /\ SourceClass(2) = "PartB"
  /\ GetProperty(statics, "Main", "h") = "PartA.h"
  /\ GetProperty(protos, "Main", "a") = "PartA.a"
  /\ GetProperty(statics, "Main", "version") = Version

(***************************************************************************)
(* C28.  When the copy phase of a supplement call throws after its         *)
(* increment (an assignment to the main class throws), the in-flight       *)
(* counter of the main class is brought back to what it was before that    *)
(* copy phase; and every call on the class that is fulfilled, after a      *)
(* failed copy or not, leaves the completion signal resolved.              *)
(***************************************************************************)
C28_FailedCopyRestoresCounter ==
  [][\A i \in CallIds :
       LET t == calls[i].target IN
       /\ (Copies(i) /\ Rejects(i) /\ SourceClass(i) # None) =>
            meta'[t].count = meta[t].count
       /\ Fulfils(i) => meta'[t].completed = "resolved"
    ]_vars

(***************************************************************************)
(* C29.  When the source of a supplement call loads but the loaded value   *)
(* is no class (a module without default export), the call is rejected and *)
(* the in-flight counter of the main class is what it was: the call has    *)
(* not incremented it.                                                     *)
(***************************************************************************)
C29_NotAClassLeavesCounter ==
  [][\A i \in CallIds :
       (Copies(i) /\ SourceClass(i) = None) =>
         /\ calls'[i].pc = "rejected"
         /\ meta'[calls[i].target].count = meta[calls[i].target].count
    ]_vars

C31_MetadataCreatedOnce ==
  [][\A t \in MainClasses :
       (Len(calls') = Len(calls) + 1 /\ calls'[Len(calls')].target = t)
         => IF meta[t].gen = 0
              THEN meta'[t] = [completed |-> "pending", count |-> 0, gen |-> 1]
              ELSE meta'[t] = meta[t]]_vars

\* A third call was issued on Main while the counter stood at 1 (the first
\* call's copy had thrown) and after the second call had been issued with
\* the same pending signal: the metadata is still the first call's.
C31_Witness ==
  /\ Len(calls) = 3
  /\ \A i \in CallIds : calls[i].target = "Main"
  /\ calls[1].pc = "rejected" /\ calls[1].error = "TypeError"
  /\ ran = << 1 >>
  /\ calls[3].pc = "awaiting"
  /\ meta["Main"] = [completed |-> "pending", count |-> 1, gen |-> 1]

\* Class c defines or inherits k, in the table, as something an assignment
\* cannot go through: a read-only data member or an accessor without setter.
Blocked(tab, c, k) ==
  /\ Definer(tab, c, k) # None
  /\ LET e == Own(tab[Definer(tab, c, k)], k)
     IN IF e.kind = "accessor" THEN ~e.setter ELSE ~e.writable

\* Member e of a source is on class c in the table after the step: a lookup
\* finds its value (or c took it through an accessor, which keeps no value).
Landed(tab, c, e) ==
  IsAccessor(tab, c, e.key) \/ GetProperty(tab', c, e.key) = e.value

(***************************************************************************)
(* C32.  Within the copy phase of a supplement call the instance-method    *)
(* table is written before the static table: when the static table of the  *)
(* target changed, every writable instance member of the source is already *)
(* on the target, and a call that fails on a static member has copied      *)
(* every instance member.  Within a table the writes follow the source's   *)
(* order: a member is only written when the members before it are, and the *)
(* members the call creates on the target stand in the source's order.  A  *)
(* name the source has in both tables lands in each table of the target    *)
(* with that table's value.                                                *)
(***************************************************************************)
C32_InstanceTableFirstInSourceOrder ==
  [][\A i \in CallIds :
       (Copies(i) /\ SourceClass(i) # None) =>
         LET t == calls[i].target
             S == SourceClass(i)
             InOrder(tab) ==
               \A p, q \in 1..Len(tab[S]) :
                 (/\ p < q
                  /\ tab[S][p] \in WritableMembers(tab[S])
                  /\ tab[S][q] \in WritableMembers(tab[S])) =>
                   /\ (/\ ~IsAccessor(tab, t, tab[S][q].key)
                       /\ tab'[t] # tab[t]
                       /\ GetProperty(tab', t, tab[S][q].key) = tab[S][q].value
                       /\ GetProperty(tab, t, tab[S][q].key) # tab[S][q].value)
                        => Landed(tab, t, tab[S][p])
                   /\ (/\ ~HasOwn(tab[t], tab[S][p].key)
                       /\ ~HasOwn(tab[t], tab[S][q].key)
                       /\ HasOwn(tab'[t], tab[S][p].key)
                       /\ HasOwn(tab'[t], tab[S][q].key))
                        => OwnIndex(tab'[t], tab[S][p].key)
                             < OwnIndex(tab'[t], tab[S][q].key)
         IN /\ statics'[t] # statics[t]
                => \A e \in WritableMembers(protos[S]) : Landed(protos, t, e)
            /\ (/\ Rejects(i)
                /\ \A e \in WritableMembers(protos[S]) : ~Blocked(protos, t, e.key))
                => \A e \in WritableMembers(protos[S]) : Landed(protos, t, e)
            /\ InOrder(protos) /\ InOrder(statics)
            /\ Fulfils(i) =>
                 \A e \in WritableMembers(protos[S]), f \in WritableMembers(statics[S]) :
                   e.key = f.key =>
                     /\ Landed(protos, t, e) /\ Landed(statics, t, f)
                     /\ e.value # f.value]_vars

\* PartA, which has h in both tables, was copied to Main: Main has the two
\* values of h, each in its table, and a before h as in PartA; PartC's copy
\* failed on the static name after c had been written.
C32_Witness ==
  /\ \E i \in CallIds :
       /\ calls[i].target = "Main" /\ SourceClass(i) = "PartA"
       /\ calls[i].pc = "fulfilled"
  /\ \E i \in CallIds :
       /\ calls[i].target = "Main" /\ SourceClass(i) = "PartC"
       /\ calls[i].pc = "rejected" /\ calls[i].error = "TypeError"
  /\ GetProperty(protos, "Main", "h") = "PartA.prototype.h"
  /\ GetProperty(statics, "Main", "h") = "PartA.h"
  /\ OwnIndex(protos["Main"], "a") < OwnIndex(protos["Main"], "h")
  /\ GetProperty(protos, "Main", "c") = "PartC.c"
  /\ ~HasOwn(statics["Main"], "k")

\* The target's own entry for the q-th member of the source's table is what
\* it was before the step (still missing when it was missing).
Untouched(tab, t, S, q) ==
  LET k == tab[S][q].key IN
  /\ HasOwn(tab'[t], k) <=> HasOwn(tab[t], k)
  /\ HasOwn(tab[t], k) => Own(tab'[t], k) = Own(tab[t], k)

(***************************************************************************)
(* C33.  No rollback of a partial copy: when the copy phase of a call      *)
(* fails on a write, the writable members before the failing one, in the   *)
(* order instance table then static table, are on the target with the      *)
(* source's value, and the target's entries for the failing member and for *)
(* every member after it are what they were before the call.               *)
(***************************************************************************)
C33_NoRollbackNoWriteAfterFailure ==
  [][\A i \in CallIds :
       (Copies(i) /\ Rejects(i) /\ SourceClass(i) # None) =>
         LET t == calls[i].target
             S == SourceClass(i)
             FailsAt(tab, p) ==
               /\ tab[S][p] \in WritableMembers(tab[S])
               /\ Blocked(tab, t, tab[S][p].key)
               /\ \A q \in 1..(p - 1) :
                    tab[S][q] \in WritableMembers(tab[S])
                      => /\ ~Blocked(tab, t, tab[S][q].key)
                         /\ Landed(tab, t, tab[S][q])
               /\ \A q \in p..Len(tab[S]) : Untouched(tab, t, S, q)
         IN \/ /\ \E p \in 1..Len(protos[S]) : FailsAt(protos, p)
               /\ \A q \in 1..Len(statics[S]) : Untouched(statics, t, S, q)
            \/ /\ \A e \in WritableMembers(protos[S]) :
                    ~Blocked(protos, t, e.key) /\ Landed(protos, t, e)
               /\ \E p \in 1..Len(statics[S]) : FailsAt(statics, p)]_vars

\* supplement(Main, PartC) alone: c was written, the assignment of name
\* threw, k after it was never written and c is still on Main.
C33_Witness ==
  /\ Len(calls) = 1
  /\ calls[1].target = "Main" /\ SourceClass(1) = "PartC"
  /\ calls[1].pc = "rejected" /\ calls[1].error = "TypeError"
  /\ HasOwn(protos["Main"], "c") /\ Own(protos["Main"], "c").value = "PartC.c"
  /\ Own(statics["Main"], "name").value = "Main"
  /\ ~HasOwn(statics["Main"], "k")

(***************************************************************************)
(* The program that supplements a class and a subclass of it:              *)
(* class Sub extends Main, with supplement calls on either.                *)
(***************************************************************************)
InheritRefs == { ClassRef("PartA"), ClassRef("PartB") }

NextInherit ==
  \/ \E t \in Targets, ref \in InheritRefs : Supplement(t, ref)
  \/ \E i \in 1..Len(calls) : SourceResolved(i)

SpecInherit == Init /\ [][NextInherit]_vars

(***************************************************************************)
(* C34.  A supplement call on one target changes only that target: a step  *)
(* of a call on t1 (its issue or its copy phase) leaves the own member     *)
(* tables, the counter and the completion signal of every other target t2  *)
(* as they were, a subclass of t1 and the class t1 extends included.       *)
(***************************************************************************)
C34_OtherTargetsUnchanged ==
  [][\A t1 \in Targets :
       (\/ /\ Len(calls') = Len(calls) + 1
           /\ calls'[Len(calls')].target = t1
        \/ \E i \in CallIds : Copies(i) /\ calls[i].target = t1)
         => \A t2 \in Targets \ {t1} :
              /\ statics'[t2] = statics[t2]
              /\ protos'[t2] = protos[t2]
              /\ meta'[t2] = meta[t2]]_vars

(***************************************************************************)
(* C35.  Source normalization: whenever a call's copy phase runs, the      *)
(* source class it uses is the default export when the awaited value is a  *)
(* module that has one, and the awaited value itself otherwise; a class    *)
(* passed directly is used as is, whatever its static members.             *)
(***************************************************************************)
C35_DefaultExportOrValueItself ==
  [][\A i \in CallIds :
       Copies(i) =>
         LET v == Awaited(calls[i].ref) IN
         Normalize(statics, v) =
           IF v.tag = "module" /\ v.cls # None THEN ClassValue(v.cls) ELSE v]_vars

(***************************************************************************)
(* The program that supplements Main with sources passed in any order and  *)
(* resolving in any order: PartB, PartC and the default export of          *)
(* partD.mjs have no member name in common; PartA shares m and h with      *)
(* PartB.                                                                  *)
(***************************************************************************)
OrderRefs ==
  { ClassRef("PartA"), ClassRef("PartB"), ClassRef("PartC"),
    PathRef(<<"partD", "mjs">>) }

NextOrder ==
  \/ \E ref \in OrderRefs : Supplement("Main", ref)
  \/ \E i \in 1..Len(calls) : SourceResolved(i)

SpecOrder == Init /\ [][NextOrder]_vars

\* The writable member names of the two classes are disjoint, table by table.
DisjointSources(S1, S2) ==
  /\ {e.key : e \in WritableMembers(protos[S1])}
       \cap {e.key : e \in WritableMembers(protos[S2])} = {}
  /\ {e.key : e \in WritableMembers(statics[S1])}
       \cap {e.key : e \in WritableMembers(statics[S2])} = {}

\* The tables the program started with (Main's m is a setter from the start
\* or never).
InitialProtos ==
  [c \in Classes |->
     IF c = "Main" /\ IsAccessor(protos, "Main", "m")
       THEN MainProtoWithSetter ELSE InitProto(c)]
InitialStatics == [c \in Classes |-> InitStatic(c)]

\* The tables after the copy phases of calls 1..n run one after the other in
\* the order the calls were issued, from the initial tables.
RECURSIVE InIssueOrder(_)
InIssueOrder(n) ==
  IF n = 0
    THEN [protos |-> InitialProtos, statics |-> InitialStatics, meta |-> meta,
          threw |-> FALSE]
  ELSE LET r == InIssueOrder(n - 1) IN
       CopyPhase(r.protos, r.statics, r.meta, calls[n].target,
                 Awaited(calls[n].ref))

(***************************************************************************)
(* C36.  For sources whose writable member names are pairwise disjoint per *)
(* table, once every supplement call has settled the members of the        *)
(* target's two tables are those that running the copy phases in the order *)
(* of the calls gives, in whatever order the sources actually resolved:    *)
(* the final tables do not depend on the order of resolution.              *)
(***************************************************************************)
C36_FinalTablesIndependentOfOrder ==
  (/\ \A i \in CallIds : calls[i].pc # "awaiting" /\ SourceClass(i) # None
   /\ \A i, j \in CallIds :
        i # j => DisjointSources(SourceClass(i), SourceClass(j)))
    => \A t \in MainClasses :
         /\ Members(protos[t]) = Members(InIssueOrder(Len(calls)).protos[t])
         /\ Members(statics[t]) = Members(InIssueOrder(Len(calls)).statics[t])

\* PartB, PartC and partD.mjs were passed in this order and resolved in the
\* opposite order; Main has the members of all three (PartC's up to its
\* failing write).
C36_Witness ==
  /\ Len(calls) = 3 /\ ran = << 3, 2, 1 >>
  /\ SourceClass(1) = "PartB" /\ SourceClass(2) = "PartC"
  /\ SourceClass(3) = "PartD"
  /\ calls[1].pc = "fulfilled" /\ calls[3].pc = "fulfilled"
  /\ GetProperty(statics, "Main", "version") = Version
  /\ GetProperty(protos, "Main", "c") = "PartC.c"
  /\ GetProperty(protos, "Main", "p") = "PartD.p"
  /\ GetProperty(statics, "Main", "d") = "PartD.d"

(***************************************************************************)
(* C37.  Supplementing is idempotent on the member tables: when the copy   *)
(* phase of a call runs right after the copy phase of another call on the  *)
(* same target with the same source class, whether the two calls were made *)
(* one after the other or were both waiting for their source, it leaves    *)
(* the two member tables of the target as the first copy left them.        *)
(***************************************************************************)
C37_SecondCopyChangesNothing ==
  [][\A i \in CallIds :
       (/\ Copies(i)
        /\ ran # << >>
        /\ SourceClass(i) # None
        /\ SourceClass(ran[Len(ran)]) = SourceClass(i)
        /\ calls[ran[Len(ran)]].target = calls[i].target)
         => /\ protos'[calls[i].target] = protos[calls[i].target]
            /\ statics'[calls[i].target] = statics[calls[i].target]]_vars

\* PartA was passed three times: twice at once, resolving in the opposite
\* order, and once more after the signal had been resolved.
C37_Witness ==
  /\ Len(calls) = 3
  /\ SourceClass(1) = "PartA" /\ SourceClass(2) = "PartA"
  /\ SourceClass(3) = "PartA"
  /\ ran = << 2, 1, 3 >>
  /\ \A i \in CallIds : calls[i].pc = "fulfilled"
  /\ calls[3].signalAtCall = "resolved"
  /\ GetProperty(protos, "Main", "a") = "PartA.a"
  /\ GetProperty(statics, "Main", "h") = "PartA.h"

(***************************************************************************)
(* The program whose sources and directories give nothing to copy: a path  *)
(* that does not load, directories without a file of an accepted           *)
(* extension (none at all; or notes.md, README and the dot file .js) and a *)
(* directory that cannot be listed, next to calls with the class PartB.    *)
(***************************************************************************)
NoSourceRefs == { PathRef(<<"broken", "js">>), ClassRef("PartB") }
NoSourceDirs == { "empty", "docs", "nodir" }

NextNoSource ==
  \/ \E ref \in NoSourceRefs : Supplement("Main", ref)
  \/ \E i \in 1..Len(calls) : SourceRejected(i)
  \/ \E i \in 1..Len(calls) : SourceResolved(i)
  \/ \E d \in NoSourceDirs : SupplementAll("Main", d)
  \/ \E j \in 1..Len(alls) : ReaddirRejected(j)
  \/ \E j \in 1..Len(alls) : ReaddirResolved(j)

SpecNoSource == Init /\ [][NextNoSource]_vars

NoAcceptedEntry(d) ==
  /\ Readdir(d).ok
  /\ \A n \in 1..Len(Readdir(d).files) :
       ExtName(Readdir(d).files[n]) \notin validExtensions

(***************************************************************************)
(* C39.  supplementAll over a directory without an accepted entry (empty,  *)
(* or holding unsupported kinds only) issues no supplement call and        *)
(* leaves the metadata and the two member tables of every class as they    *)
(* were; a main class that no supplement call was made on has no metadata, *)
(* so no completion signal, afterwards.                                    *)
(***************************************************************************)
C39_NoAcceptedEntryNoCallNoMetadata ==
  /\ [](\A j \in 1..Len(alls) :
          NoAcceptedEntry(alls[j].dir) =>
            /\ Batch(j) = {}
            /\ CallsOn(alls[j].target) = {}
                 => /\ meta[alls[j].target] = NoMeta
                    /\ Signal(alls[j].target) = "absent")
  /\ [][\A j \in 1..Len(alls) :
          (/\ NoAcceptedEntry(alls[j].dir)
           /\ alls[j].pc = "reading" /\ alls'[j].pc # "reading")
            => /\ alls'[j].pc = "fulfilled"
               /\ UNCHANGED << calls, meta, statics, protos >>]_vars

\* supplementAll returned for the empty directory and for the directory of
\* unsupported files: no call was issued and Main has no metadata.
C39_Witness ==
  /\ \E j \in 1..Len(alls) : alls[j].dir = "empty" /\ alls[j].pc = "fulfilled"
  /\ \E j \in 1..Len(alls) : alls[j].dir = "docs" /\ alls[j].pc = "fulfilled"
  /\ calls = << >>
  /\ meta["Main"] = NoMeta
  /\ protos["Main"] \in MainProtos /\ statics["Main"] = InitStatic("Main")

(***************************************************************************)
(* C40.  supplementAll on a directory that cannot be listed fails before   *)
(* it issues any supplement call: neither the call itself nor its failure  *)
(* changes a member table, a counter or a completion signal (no metadata   *)
(* appears where there was none), and no supplement call is ever issued    *)
(* by it.                                                                  *)
(***************************************************************************)
C40_UnlistableDirectoryChangesNothing ==
  /\ [](\A j \in 1..Len(alls) :
          ~Readdir(alls[j].dir).ok =>
            /\ alls[j].pc \in {"reading", "rejected"}
            /\ Batch(j) = {})
  /\ [][/\ (/\ Len(alls') = Len(alls) + 1
            /\ ~Readdir(alls'[Len(alls')].dir).ok)
             => UNCHANGED << calls, meta, statics, protos >>
        /\ \A j \in 1..Len(alls) :
             (/\ ~Readdir(alls[j].dir).ok
              /\ alls[j].pc = "reading" /\ alls'[j].pc # "reading")
               => /\ alls'[j].pc = "rejected"
                  /\ UNCHANGED << calls, meta, statics, protos >>]_vars

\* supplementAll was rejected for the missing directory, once on a Main
\* without metadata and once after a supplement call had resolved the
\* signal: the metadata is what that call left.
C40_Witness ==
  /\ Len(alls) = 2
  /\ \A j \in 1..2 : alls[j].dir = "nodir" /\ alls[j].pc = "rejected"
  /\ Len(calls) = 1 /\ calls[1].pc = "fulfilled"
  /\ meta["Main"] = [completed |-> "resolved", count |-> 0, gen |-> 1]

====
